---- MODULE Spec2Model ----
(***************************************************************************)
(* A model of get_stats.py (BibtexAnalyzer): the line-oriented entry       *)
(* segmenter parse_bibtex_file, the field scanner parse_entry_fields, the  *)
(* value normalizers extract_authors / extract_venue_info and the          *)
(* aggregation calculate_statistics.                                       *)
(*                                                                         *)
(* Python strings are TLA+ strings (TLC evaluates Len, SubSeq and \o on    *)
(* them); positions are 1-based.  Counter objects are bags.                *)
(***************************************************************************)
EXTENDS Integers, Sequences, FiniteSets, Bags, TLC

(***************************************************************************)
(* Characters and the str methods the program uses.                        *)
(***************************************************************************)
LowerStr == "abcdefghijklmnopqrstuvwxyz"

UpperStr == "ABCDEFGHIJKLMNOPQRSTUVWXYZ"

DigitStr == "0123456789"

Ch(s, i) == SubSeq(s, i, i)

CharsOf(s) == { Ch(s, i) : i \in 1..Len(s) }

Digits == CharsOf(DigitStr)

\* \w of the re module (ASCII part)
WordChars == CharsOf(LowerStr) \cup CharsOf(UpperStr) \cup Digits \cup {"_"}

\* \s of the re module, and what str.strip() removes
Whitespace == {" ", "\t", "\n", "\r"}

LowerFn == [c \in CharsOf(UpperStr) |->
              Ch(LowerStr, CHOOSE i \in 1..Len(UpperStr) : Ch(UpperStr, i) = c)]

LowerCh(c) == IF c \in DOMAIN LowerFn THEN LowerFn[c] ELSE c

RECURSIVE Lower(_)
\* str.lower()
Lower(s) == IF s = "" THEN "" ELSE LowerCh(Ch(s, 1)) \o Lower(Tail(s))

\* s[a:b] of Python, for 1-based a..b inclusive; "" when the range is empty
Slice(s, a, b) == IF a > b THEN "" ELSE SubSeq(s, a, b)

RECURSIVE SkipSpace(_, _)
\* the first position >= i that holds no whitespace (Len(s)+1 at the end)
SkipSpace(s, i) ==
    IF i <= Len(s) /\ Ch(s, i) \in Whitespace THEN SkipSpace(s, i + 1) ELSE i

RECURSIVE SkipSpaceBack(_, _)
\* the last position <= i that holds no whitespace (0 when there is none)
SkipSpaceBack(s, i) ==
    IF i >= 1 /\ Ch(s, i) \in Whitespace THEN SkipSpaceBack(s, i - 1) ELSE i

RECURSIVE SkipWord(_, _)
\* the first position >= i that holds no \w character
SkipWord(s, i) ==
    IF i <= Len(s) /\ Ch(s, i) \in WordChars THEN SkipWord(s, i + 1) ELSE i

\* str.strip()
Strip(s) == Slice(s, SkipSpace(s, 1), SkipSpaceBack(s, Len(s)))

\* str.rstrip()
RStrip(s) == Slice(s, 1, SkipSpaceBack(s, Len(s)))

RECURSIVE RStripCommas(_)
\* str.rstrip(',')
RStripCommas(s) ==
    IF s # "" /\ Ch(s, Len(s)) = "," THEN RStripCommas(Slice(s, 1, Len(s) - 1)) ELSE s

\* str.count(c) for a one-character c
Count(s, c) == Cardinality({ i \in 1..Len(s) : Ch(s, i) = c })

\* c in s, for a one-character c
Contains(s, c) == \E i \in 1..Len(s) : Ch(s, i) = c

\* str.startswith / str.endswith
StartsWith(s, p) == Len(s) >= Len(p) /\ Slice(s, 1, Len(p)) = p

EndsWith(s, p) == Len(s) >= Len(p) /\ Slice(s, Len(s) - Len(p) + 1, Len(s)) = p

RECURSIVE FindFrom(_, _, _)
\* str.find(c, i): the first position >= i holding c, 0 when there is none
FindFrom(s, c, i) ==
    IF i > Len(s) THEN 0
    ELSE IF Ch(s, i) = c THEN i ELSE FindFrom(s, c, i + 1)

RECURSIVE RemoveChar(_, _)
\* str.replace(c, '')
RemoveChar(s, c) ==
    IF s = "" THEN ""
    ELSE (IF Ch(s, 1) = c THEN "" ELSE Ch(s, 1)) \o RemoveChar(Tail(s), c)

RemoveBraces(s) == RemoveChar(RemoveChar(s, "{"), "}")

RECURSIVE Join(_, _)
\* sep.join(parts)
Join(parts, sep) ==
    IF Len(parts) = 0 THEN ""
    ELSE IF Len(parts) = 1 THEN parts[1]
    ELSE parts[1] \o sep \o Join(Tail(parts), sep)

RECURSIVE Split(_, _)
\* str.split(c) for a one-character c
Split(s, c) ==
    LET p == FindFrom(s, c, 1)
    IN IF p = 0 THEN <<s>>
       ELSE <<Slice(s, 1, p - 1)>> \o Split(Slice(s, p + 1, Len(s)), c)

(***************************************************************************)
(* The regular expressions of the program, each computed the way the       *)
(* backtracking matcher of the re module computes it.                      *)
(***************************************************************************)
\* whether r'@(\w+)\s*{' matches at position i
StartPatternAt(line, i) ==
    /\ Ch(line, i) = "@"
    /\ SkipWord(line, i + 1) > i + 1
    /\ SkipSpace(line, SkipWord(line, i + 1)) <= Len(line)
    /\ Ch(line, SkipSpace(line, SkipWord(line, i + 1))) = "{"

RECURSIVE StartPatternFrom(_, _)
\* re.search(r'@(\w+)\s*{', line): the position of the first match, 0 for None
StartPatternFrom(line, i) ==
    IF i > Len(line) THEN 0
    ELSE IF StartPatternAt(line, i) THEN i
    ELSE StartPatternFrom(line, i + 1)

StartPattern(line) == StartPatternFrom(line, 1)

\* match.group(1).lower()
EntryType(line) ==
    LET i == StartPattern(line)
    IN Lower(Slice(line, i + 1, SkipWord(line, i + 1) - 1))

RECURSIVE KeyPatternFrom(_, _)
\* re.search(r'{([^,]+)', line): the position of the brace of the first match, 0 for None
KeyPatternFrom(line, i) ==
    IF i >= Len(line) THEN 0
    ELSE IF Ch(line, i) = "{" /\ Ch(line, i + 1) # "," THEN i
    ELSE KeyPatternFrom(line, i + 1)

\* a key that is 'unknown' whenever the line holds no comma
EntryKeyUpToComma(line) ==
    LET b == FindFrom(line, "{", 1)
        c == FindFrom(line, ",", 1)
    IN IF b = 0 \/ c = 0 THEN "unknown" ELSE Slice(line, b + 1, c - 1)

\* key_match.group(1) if key_match else 'unknown'
EntryKey(line) ==
    LET b == KeyPatternFrom(line, 1)
        c == FindFrom(line, ",", b + 1)
    IN IF b = 0 THEN "unknown"
       ELSE Slice(line, b + 1, IF c = 0 THEN Len(line) ELSE c - 1)

\* the lookahead (?=\s*\w+\s*=|\s*}\s*$) at position q (q may be Len(s)+1)
LookAhead(s, q) ==
    LET r == SkipSpace(s, q)
        w == SkipWord(s, r)
        t == SkipSpace(s, w)
    IN \/ w > r /\ t <= Len(s) /\ Ch(s, t) = "="
       \/ r <= Len(s) /\ Ch(s, r) = "}" /\ SkipSpace(s, r + 1) > Len(s)

RECURSIVE DelimitedStop(_, _, _)
\* {.*?} or ".*?" opened before j: the position after the first closing
\* delimiter d at or after j that the lookahead accepts, 0 when there is none
DelimitedStop(s, d, j) ==
    IF j > Len(s) THEN 0
    ELSE IF Ch(s, j) = d /\ LookAhead(s, j + 1) THEN j + 1
    ELSE DelimitedStop(s, d, j + 1)

RECURSIVE BareStop(_, _)
\* .*? from q on: the first position at or after q that the lookahead accepts
BareStop(s, q) ==
    IF q > Len(s) + 1 THEN 0
    ELSE IF LookAhead(s, q) THEN q
    ELSE BareStop(s, q + 1)

\* ({.*?}|".*?"|.*?)(?=...) at p: the position after the value, 0 for no match;
\* the alternatives are tried in the order written
ValueStop(s, p) ==
    LET brace == IF p <= Len(s) /\ Ch(s, p) = "{" THEN DelimitedStop(s, "}", p + 1) ELSE 0
        quote == IF p <= Len(s) /\ Ch(s, p) = "\"" THEN DelimitedStop(s, "\"", p + 1) ELSE 0
    IN IF brace # 0 THEN brace
       ELSE IF quote # 0 THEN quote
       ELSE BareStop(s, p)

\* the whole pattern of parse_entry_fields at position i:
\* [name, value, stop] of the match, stop = 0 when there is none
FieldMatchAt(s, i) ==
    LET w == SkipWord(s, i)
        e == SkipSpace(s, w)
        p == SkipSpace(s, e + 1)
        ok == w > i /\ e <= Len(s) /\ Ch(s, e) = "="
        stop == IF ok THEN ValueStop(s, p) ELSE 0
    IN [name |-> Slice(s, i, w - 1),
        value |-> IF stop = 0 THEN "" ELSE Slice(s, p, stop - 1),
        stop |-> stop]

RECURSIVE FindAllFields(_, _)
\* re.findall(pattern, content, re.DOTALL | re.IGNORECASE) from position i on
FindAllFields(s, i) ==
    IF i > Len(s) THEN <<>>
    ELSE LET m == FieldMatchAt(s, i)
         IN IF m.stop = 0 THEN FindAllFields(s, i + 1)
            ELSE <<m>> \o FindAllFields(s, m.stop)

(***************************************************************************)
(* Dictionaries are functions on the set of their keys.                    *)
(***************************************************************************)
EmptyDict == [k \in {} |-> ""]

\* d[k] = v
DictSet(d, k, v) == (k :> v) @@ d

\* d.get(k, '')
Get(d, k) == IF k \in DOMAIN d THEN d[k] ELSE ""

\* a or b, on strings
OrElse(a, b) == IF a # "" THEN a ELSE b

\* the clean-up of one matched value (get_stats.py lines 99-109)
CleanValue(raw) ==
    LET v == Strip(raw)
        u == IF Len(v) >= 1 /\ StartsWith(v, "{") /\ EndsWith(v, "}")
                 THEN Slice(v, 2, Len(v) - 1)
             ELSE IF Len(v) >= 1 /\ StartsWith(v, "\"") /\ EndsWith(v, "\"")
                 THEN Slice(v, 2, Len(v) - 1)
             ELSE v
    IN Strip(RStripCommas(u))

RECURSIVE StoreFields(_, _)
\* the loop over the matches: a later field of the same name overwrites
StoreFields(fields, matches) ==
    IF matches = <<>> THEN fields
    ELSE StoreFields(DictSet(fields, Strip(Lower(matches[1].name)),
                             CleanValue(matches[1].value)),
                     Tail(matches))

parse_entry_fields(entry_text) ==
    LET lines == Split(entry_text, "\n")
        content == IF Len(lines) > 1
                       THEN Join(Tail(lines), "\n")
                   ELSE Slice(lines[1], FindFrom(lines[1], ",", 1) + 1, Len(lines[1]))
    IN StoreFields(EmptyDict, FindAllFields(content, 1))

(***************************************************************************)
(* extract_authors                                                         *)
(***************************************************************************)
\* whether r'\sand\s' (re.IGNORECASE) matches at position i
AndAt(s, i) ==
    /\ i + 4 <= Len(s)
    /\ Ch(s, i) \in Whitespace
    /\ Lower(Slice(s, i + 1, i + 3)) = "and"
    /\ Ch(s, i + 4) \in Whitespace

RECURSIVE AndFrom(_, _)
AndFrom(s, i) ==
    IF i > Len(s) THEN 0 ELSE IF AndAt(s, i) THEN i ELSE AndFrom(s, i + 1)

RECURSIVE SplitAnd(_)
\* re.split(r'\sand\s', s, flags=re.IGNORECASE)
SplitAnd(s) ==
    LET p == AndFrom(s, 1)
    IN IF p = 0 THEN <<s>>
       ELSE <<Slice(s, 1, p - 1)>> \o SplitAnd(Slice(s, p + 5, Len(s)))

RECURSIVE CollapseSpace(_)
\* re.sub(r'\s+', ' ', s)
CollapseSpace(s) ==
    IF s = "" THEN ""
    ELSE IF Ch(s, 1) \in Whitespace
        THEN " " \o CollapseSpace(Slice(s, SkipSpace(s, 1), Len(s)))
    ELSE Ch(s, 1) \o CollapseSpace(Tail(s))

RECURSIVE CleanAuthors(_)
\* the loop over the fragments: empty names are dropped
CleanAuthors(authors) ==
    IF authors = <<>> THEN <<>>
    ELSE LET author == RemoveBraces(CollapseSpace(Strip(authors[1])))
         IN (IF author # "" THEN <<author>> ELSE <<>>) \o CleanAuthors(Tail(authors))

extract_authors(author_field) ==
    IF author_field = "" THEN <<>> ELSE CleanAuthors(SplitAnd(author_field))

(***************************************************************************)
(* extract_venue_info                                                      *)
(***************************************************************************)
\* re.sub(r'^proceedings of\s*', '', s, flags=re.IGNORECASE)
StripProceedingsOf(s) ==
    IF Len(s) >= 14 /\ Lower(Slice(s, 1, 14)) = "proceedings of"
        THEN Slice(s, SkipSpace(s, 15), Len(s))
    ELSE s

\* re.sub(r'^the\s+', '', s, flags=re.IGNORECASE)
StripThe(s) ==
    IF Len(s) >= 4 /\ Lower(Slice(s, 1, 3)) = "the" /\ Ch(s, 4) \in Whitespace
        THEN Slice(s, SkipSpace(s, 4), Len(s))
    ELSE s

\* the journal clean-up strips "proceedings of" and then "the"
CleanJournal(journal) ==
    IF journal # "" THEN StripThe(StripProceedingsOf(RemoveBraces(journal))) ELSE journal

\* a clean-up that strips the article from conference names too
CleanConferenceAndThe(conference) ==
    IF conference # "" THEN StripThe(StripProceedingsOf(RemoveBraces(conference)))
    ELSE conference

\* the conference clean-up strips "proceedings of" only
CleanConference(conference) ==
    IF conference # "" THEN StripProceedingsOf(RemoveBraces(conference)) ELSE conference

\* <<journal, conference>>
extract_venue_info(entry) ==
    LET fields == entry.fields
        journal == OrElse(Get(fields, "journal"), Get(fields, "journaltitle"))
        conference == OrElse(Get(fields, "booktitle"), Get(fields, "conference"))
    IN <<Strip(CleanJournal(journal)), Strip(CleanConference(conference))>>

(***************************************************************************)
(* calculate_statistics                                                    *)
(***************************************************************************)
RECURSIVE YearFrom(_, _)
\* re.search(r'\d{4}', year).group(), "" for None
YearFrom(year, i) ==
    IF i + 3 > Len(year) THEN ""
    ELSE IF \A j \in i..(i + 3) : Ch(year, j) \in Digits THEN Slice(year, i, i + 3)
    ELSE YearFrom(year, i + 1)

YearMatch(year) == YearFrom(year, 1)

\* counter[label] += 1
Incr(counter, label) == counter (+) SetToBag({label})

\* counter[label] = 1
SetOne(counter, label) == (label :> 1) @@ counter

RECURSIVE SetAll(_, _)
\* counter[label] = 1 for each label
SetAll(counter, labels) ==
    IF labels = <<>> THEN counter
    ELSE SetAll(SetOne(counter, labels[1]), Tail(labels))

RECURSIVE IncrAll(_, _)
\* counter[label] += 1 for each label
IncrAll(counter, labels) ==
    IF labels = <<>> THEN counter
    ELSE IncrAll(Incr(counter, labels[1]), Tail(labels))

\* the statistics before the loop over `entries`
NewStats(entries) ==
    [total_entries |-> Len(entries), entry_types |-> EmptyBag, authors |-> EmptyBag,
     journals |-> EmptyBag, conferences |-> EmptyBag, years |-> EmptyBag]

\* a loop body that marks an entry type as seen instead of counting it
CountEntryTypeSeen(stats, entry) ==
    [total_entries |-> stats.total_entries,
     entry_types |-> SetOne(stats.entry_types, entry.type),
     authors |-> IF Get(entry.fields, "author") # ""
                     THEN IncrAll(stats.authors, extract_authors(Get(entry.fields, "author")))
                 ELSE stats.authors,
     journals |-> IF extract_venue_info(entry)[1] # ""
                      THEN Incr(stats.journals, extract_venue_info(entry)[1])
                  ELSE stats.journals,
     conferences |-> IF extract_venue_info(entry)[2] # ""
                         THEN Incr(stats.conferences, extract_venue_info(entry)[2])
                     ELSE stats.conferences,
     years |-> IF YearMatch(Get(entry.fields, "year")) # ""
                   THEN Incr(stats.years, YearMatch(Get(entry.fields, "year")))
               ELSE stats.years]

\* one turn of the loop of calculate_statistics
CountEntry(stats, entry) ==
    LET author_field == Get(entry.fields, "author")
        venue == extract_venue_info(entry)
        year == Get(entry.fields, "year")
        year_match == YearMatch(year)
    IN [total_entries |-> stats.total_entries,
        entry_types |-> Incr(stats.entry_types, entry.type),
        authors |-> IF author_field # ""
                        THEN IncrAll(stats.authors, extract_authors(author_field))
                    ELSE stats.authors,
        journals |-> IF venue[1] # "" THEN Incr(stats.journals, venue[1])
                     ELSE stats.journals,
        conferences |-> IF venue[2] # "" THEN Incr(stats.conferences, venue[2])
                        ELSE stats.conferences,
        years |-> IF year # "" /\ year_match # "" THEN Incr(stats.years, year_match)
                  ELSE stats.years]

RECURSIVE CountEntries(_, _)
CountEntries(stats, entries) ==
    IF entries = <<>> THEN stats
    ELSE CountEntries(CountEntry(stats, entries[1]), Tail(entries))

calculate_statistics(entries) == CountEntries(NewStats(entries), entries)

(***************************************************************************)
(* The input: the files named on the command line, each as the list        *)
(* readlines() returns.  The lines are drawn from a small vocabulary that   *)
(* holds every kind of line the segmenter tells apart.                     *)
(***************************************************************************)
MaxFiles == 2

\* the total number of lines over all the files
MaxLines == 3

CommentLine == "% comment\n"

ArticleLine ==
    "@article{k1, author = {A and B}, journal = {The Foo Journal}, year = {1999}}\n"

InproceedingsLine ==
    "@inproceedings{k2, author = {C}, booktitle = {Proceedings of Bar Conf}, year = {2001}}\n"

\* an entry start that leaves the entry open
OpenLine == "@Book{b1,\n"

\* an entry start with nothing after the brace
BareOpenLine == "@misc{\n"

\* an entry start with no comma, balanced braces and text after the last brace
TrailingLine == "@misc{m1} see\n"

\* the first line of a field value that goes on
ValueOpenLine == "  title = {A long\n"

\* a line with balanced inner braces (and an at-sign that starts nothing)
NestedLine == "  with {a@b}\n"

CloseLine == "}\n"

Vocabulary ==
    {CommentLine, ArticleLine, InproceedingsLine, OpenLine, BareOpenLine,
     TrailingLine, ValueOpenLine, NestedLine, CloseLine}

\* the files of exactly n lines
FilesOfLen(n) == [1..n -> Vocabulary]

RECURSIVE FileLists(_, _)
\* the lists of f non-empty files that hold at most n lines together
FileLists(f, n) ==
    IF f = 0 THEN {<<>>}
    ELSE UNION { { <<file>> \o rest : rest \in FileLists(f - 1, n - Len(file)) } :
                 file \in UNION { FilesOfLen(k) : k \in 1..(n - (f - 1)) } }

Inputs == UNION { FileLists(f, MaxLines) : f \in 1..MaxFiles }

(***************************************************************************)
(* The inputs of calculate_statistics when it is called on its own.        *)
(***************************************************************************)
MaxEntries == 2

Entry(type, key, fields) == [type |-> type, key |-> key, fields |-> fields, raw |-> <<>>]

SampleEntries ==
    { Entry("article", "a1", ("author" :> "A and B") @@ ("journal" :> "The Journal of Bar")
                             @@ ("year" :> "1999")),
      Entry("inproceedings", "c1",
            ("author" :> "C") @@ ("year" :> "2001.")
            @@ ("booktitle" :> "Proceedings of the International Conference on Foo")),
      Entry("article", "a2", ("author" :> "B  and {C}") @@ ("journaltitle" :> "{Foo} Journal")
                             @@ ("conference" :> "Bar Conf") @@ ("year" :> "in press")),
      Entry("misc", "m1", EmptyDict) }

EntryLists == UNION { [1..n -> SampleEntries] : n \in 0..MaxEntries }

(***************************************************************************)
(* The state.                                                              *)
(***************************************************************************)
VARIABLES
    files,          \* analyze_files: the content of each file of `filepaths`
    fi,             \* analyze_files: how many files the loop has taken
    all_entries,    \* analyze_files: all_entries
    stats,          \* analyze_files: the statistics returned
    pc,             \* "analyze", "parse" (inside parse_bibtex_file), "done", "stats"
    lines,          \* parse_bibtex_file: lines
    li,             \* parse_bibtex_file: how many lines the loop has taken
    in_entry,       \* parse_bibtex_file: in_entry
    current_entry,  \* parse_bibtex_file: current_entry
    entry_content,  \* parse_bibtex_file: entry_content
    entries,        \* parse_bibtex_file: entries
    starts,         \* history: the lines of this file that matched the start
                    \* pattern while no entry was open
    emitted,        \* history: for each entry of `entries`, the line it started at
    first,          \* calculate_statistics on its own: the two entry sequences
    second,
    results         \* and the statistics computed so far

vars == <<files, fi, all_entries, stats, pc, lines, li, in_entry, current_entry,
          entry_content, entries, starts, emitted, first, second, results>>

parser == <<lines, li, in_entry, current_entry, entry_content, entries, starts, emitted>>

standalone == <<first, second, results>>

\* Python's None, and a value that is not None
None == <<>>

Some(v) == <<v>>

Init ==
    /\ files \in Inputs
    /\ fi = 0
    /\ all_entries = <<>>
    /\ stats = None
    /\ pc = "analyze"
    /\ lines = <<>>
    /\ li = 0
    /\ in_entry = FALSE
    /\ current_entry = None
    /\ entry_content = <<>>
    /\ entries = <<>>
    /\ starts = <<>>
    /\ emitted = <<>>
    /\ first = <<>>
    /\ second = <<>>
    /\ results = EmptyDict

(***************************************************************************)
(* parse_bibtex_file                                                       *)
(***************************************************************************)
\* line = line.strip(), for the line the loop takes next
Line == Strip(lines[li + 1])

InLoop == pc = "parse" /\ li < Len(lines)

\* not line or line.startswith('%')
Skipped(line) == line = "" \/ StartsWith(line, "%")

\* a segmenter that looks for an entry start on every line with an at-sign
SeeksStartAlways(open, line) == Contains(line, "@")

\* not in_entry and '@' in line
SeeksStart(open, line) == ~open /\ Contains(line, "@")

\* a start line that closes only when it also ends with a closing brace
StartClosesAtBrace(line) ==
    /\ Contains(line, "}")
    /\ Count(line, "{") <= Count(line, "}")
    /\ EndsWith(RStrip(line), "}")

\* '}' in line and line.count('{') <= line.count('}')
StartCloses(line) == Contains(line, "}") /\ Count(line, "{") <= Count(line, "}")

\* '}' in line, brace_count <= 0 and line.rstrip().endswith('}')
ContinuationCloses(line) ==
    /\ Contains(line, "}")
    /\ Count(line, "{") - Count(line, "}") <= 0
    /\ EndsWith(RStrip(line), "}")

\* the locals of a call that keeps what the last call left behind
OpenFileKeepState ==
    /\ pc = "analyze"
    /\ fi < Len(files)
    /\ fi' = fi + 1
    /\ lines' = files[fi + 1]
    /\ li' = 0
    /\ entries' = <<>>
    /\ starts' = <<>>
    /\ emitted' = <<>>
    /\ pc' = "parse"
    /\ UNCHANGED <<in_entry, current_entry, entry_content>>
    /\ UNCHANGED <<files, all_entries, stats, standalone>>

\* analyze_files takes the next file and parse_bibtex_file reads its lines
OpenFile ==
    /\ pc = "analyze"
    /\ fi < Len(files)
    /\ fi' = fi + 1
    /\ lines' = files[fi + 1]
    /\ li' = 0
    /\ entries' = <<>>
    /\ current_entry' = None
    /\ entry_content' = <<>>
    /\ in_entry' = FALSE
    /\ starts' = <<>>
    /\ emitted' = <<>>
    /\ pc' = "parse"
    /\ UNCHANGED <<files, all_entries, stats, standalone>>

\* a blank line or a comment
SkipLine ==
    /\ InLoop
    /\ Skipped(Line)
    /\ li' = li + 1
    /\ UNCHANGED <<in_entry, current_entry, entry_content, entries, starts, emitted, lines>>
    /\ UNCHANGED <<files, fi, all_entries, stats, pc, standalone>>

\* a line that matches the start pattern
StartEntry ==
    /\ InLoop
    /\ ~Skipped(Line)
    /\ SeeksStart(in_entry, Line)
    /\ StartPattern(Line) # 0
    /\ LET new == [type |-> EntryType(Line), key |-> EntryKey(Line),
                   fields |-> EmptyDict, raw |-> <<>>]
           whole == [new EXCEPT !.raw = <<Line>>]
       IN IF StartCloses(Line)
              THEN /\ in_entry' = FALSE
                   /\ current_entry' = Some(whole)
                   /\ entries' = Append(entries, whole)
                   /\ emitted' = Append(emitted, li + 1)
              ELSE /\ in_entry' = TRUE
                   /\ current_entry' = Some(new)
                   /\ UNCHANGED <<entries, emitted>>
    /\ entry_content' = <<Line>>
    /\ starts' = IF in_entry THEN starts ELSE Append(starts, li + 1)
    /\ li' = li + 1
    /\ UNCHANGED <<lines, files, fi, all_entries, stats, pc, standalone>>

\* a line with an at-sign that does not match the start pattern
NoStart ==
    /\ InLoop
    /\ ~Skipped(Line)
    /\ SeeksStart(in_entry, Line)
    /\ StartPattern(Line) = 0
    /\ li' = li + 1
    /\ UNCHANGED <<in_entry, current_entry, entry_content, entries, starts, emitted, lines>>
    /\ UNCHANGED <<files, fi, all_entries, stats, pc, standalone>>

\* a line outside any entry
IgnoreLine ==
    /\ InLoop
    /\ ~Skipped(Line)
    /\ ~SeeksStart(in_entry, Line)
    /\ ~in_entry
    /\ li' = li + 1
    /\ UNCHANGED <<in_entry, current_entry, entry_content, entries, starts, emitted, lines>>
    /\ UNCHANGED <<files, fi, all_entries, stats, pc, standalone>>

\* a line of the open entry
ContinueEntry ==
    /\ InLoop
    /\ ~Skipped(Line)
    /\ ~SeeksStart(in_entry, Line)
    /\ in_entry
    /\ entry_content' = Append(entry_content, Line)
    /\ IF ContinuationCloses(Line)
           THEN LET full_text == Join(entry_content', "\n")
                    closed == [current_entry[1] EXCEPT
                                   !.fields = parse_entry_fields(full_text)]
                IN /\ in_entry' = FALSE
                   /\ current_entry' = Some(closed)
                   /\ entries' = Append(entries, closed)
                   /\ emitted' = Append(emitted, starts[Len(starts)])
           ELSE UNCHANGED <<in_entry, current_entry, entries, emitted>>
    /\ li' = li + 1
    /\ UNCHANGED <<starts, lines, files, fi, all_entries, stats, pc, standalone>>

\* return entries, and all_entries.extend(entries) in analyze_files
ReturnEntries ==
    /\ pc = "parse"
    /\ li = Len(lines)
    /\ all_entries' = all_entries \o entries
    /\ pc' = "analyze"
    /\ UNCHANGED <<parser, files, fi, stats, standalone>>

\* return self.calculate_statistics(all_entries)
Calculate ==
    /\ pc = "analyze"
    /\ fi = Len(files)
    /\ stats' = calculate_statistics(all_entries)
    /\ pc' = "done"
    /\ UNCHANGED <<parser, files, fi, all_entries, standalone>>

Next ==
    \/ OpenFile
    \/ SkipLine
    \/ StartEntry
    \/ NoStart
    \/ IgnoreLine
    \/ ContinueEntry
    \/ ReturnEntries
    \/ Calculate

Spec == Init /\ [][Next]_vars

(***************************************************************************)
(* calculate_statistics called on its own, on two entry sequences, on      *)
(* their concatenation and on the concatenation the other way round.       *)
(***************************************************************************)
InitStats ==
    /\ files = <<>>
    /\ fi = 0
    /\ all_entries = <<>>
    /\ stats = None
    /\ pc = "stats"
    /\ lines = <<>>
    /\ li = 0
    /\ in_entry = FALSE
    /\ current_entry = None
    /\ entry_content = <<>>
    /\ entries = <<>>
    /\ starts = <<>>
    /\ emitted = <<>>
    /\ first \in EntryLists
    /\ second \in EntryLists
    /\ results = EmptyDict

\* the entries a result was computed from
InputOf(k) ==
    CASE k = "first" -> first
      [] k = "second" -> second
      [] k = "concat" -> first \o second
      [] k = "swapped" -> second \o first

CalculateFirst ==
    /\ pc = "stats"
    /\ DOMAIN results = {}
    /\ results' = DictSet(results, "first", calculate_statistics(first))
    /\ UNCHANGED <<files, fi, all_entries, stats, pc, parser, first, second>>

CalculateSecond ==
    /\ pc = "stats"
    /\ DOMAIN results = {"first"}
    /\ results' = DictSet(results, "second", calculate_statistics(second))
    /\ UNCHANGED <<files, fi, all_entries, stats, pc, parser, first, second>>

CalculateConcat ==
    /\ pc = "stats"
    /\ DOMAIN results = {"first", "second"}
    /\ results' = DictSet(results, "concat", calculate_statistics(first \o second))
    /\ UNCHANGED <<files, fi, all_entries, stats, pc, parser, first, second>>

CalculateSwapped ==
    /\ pc = "stats"
    /\ DOMAIN results = {"first", "second", "concat"}
    /\ results' = DictSet(results, "swapped", calculate_statistics(second \o first))
    /\ UNCHANGED <<files, fi, all_entries, stats, pc, parser, first, second>>

NextStats ==
    \/ CalculateFirst
    \/ CalculateSecond
    \/ CalculateConcat
    \/ CalculateSwapped

SpecStats == InitStats /\ [][NextStats]_vars

(***************************************************************************)
(* Properties of the segmenter (checked under Spec).                       *)
(***************************************************************************)
Range(seq) == { seq[i] : i \in 1..Len(seq) }

Last(seq) == seq[Len(seq)]

\* opening minus closing braces
Balance(text) == Count(text, "{") - Count(text, "}")

\* what two valid single-line entries of the vocabulary say
SingleLineEntries ==
    { [line |-> ArticleLine, type |-> "article", key |-> "k1",
       fields |-> ("author" :> "A and B") @@ ("journal" :> "The Foo Journal")
                  @@ ("year" :> "1999")],
      [line |-> InproceedingsLine, type |-> "inproceedings", key |-> "k2",
       fields |-> ("author" :> "C") @@ ("booktitle" :> "Proceedings of Bar Conf")
                  @@ ("year" :> "2001")] }

\* C1: a valid single-line entry @TYPE{key, field=value, ...}, read while no
\* entry is open, gives exactly one entry, with the type lowercased, the key,
\* and every field=value pair written on the line in its fields.
C1_SingleLineEntryHasItsFields ==
    pc = "parse" =>
        \A t \in SingleLineEntries : \A i \in 1..li :
            (lines[i] = t.line /\ i \in Range(starts)) =>
                /\ Cardinality({ j \in 1..Len(emitted) : emitted[j] = i }) = 1
                /\ \A j \in 1..Len(emitted) : emitted[j] = i =>
                       /\ entries[j].type = t.type
                       /\ entries[j].key = t.key
                       /\ \A k \in DOMAIN t.fields :
                              /\ k \in DOMAIN entries[j].fields
                              /\ entries[j].fields[k] = t.fields[k]

EndToEndFile == <<ArticleLine, InproceedingsLine>>

EndToEndStatistics ==
    [total_entries |-> 2,
     entry_types |-> ("article" :> 1) @@ ("inproceedings" :> 1),
     authors |-> ("A" :> 1) @@ ("B" :> 1) @@ ("C" :> 1),
     journals |-> ("Foo Journal" :> 1),
     conferences |-> ("Bar Conf" :> 1),
     years |-> ("1999" :> 1) @@ ("2001" :> 1)]

\* C2: analysing the two-line document of the end-to-end scenario yields
\* total_entries = 2, entry_types = {article:1, inproceedings:1},
\* authors = {A:1, B:1, C:1}, journals = {'Foo Journal':1},
\* conferences = {'Bar Conf':1}, years = {1999:1, 2001:1}.
C2_EndToEndScenario ==
    (pc = "done" /\ files = <<EndToEndFile>>) => stats = EndToEndStatistics

\* the last entry was closed at a continuation line (entry_content is kept
\* until the next entry starts)
ClosedAtContinuation == pc = "parse" /\ ~in_entry /\ Len(entry_content) >= 2

\* C3: a multi-line entry is closed at a line only when that line's braces are
\* balanced or over-balanced and the line ends with a closing brace, and a
\* continuation line that does not close the entry's outer brace (the braces
\* counted since the entry start are still open after it) never ends the entry.
C3_ClosesOnlyAtOuterBrace ==
    ClosedAtContinuation =>
        /\ Balance(Last(entry_content)) <= 0
        /\ EndsWith(Last(entry_content), "}")
        /\ Balance(Join(entry_content, "\n")) <= 0

\* C4: an entry still open at the end of a file contributes zero or one entry
\* to that file's result and raises nothing (current_entry is set whenever an
\* entry is open, so that storing its fields cannot fail); every file of the
\* list is parsed, each starting outside any open entry.
C4_UnclosedEntryIsDropped ==
    /\ in_entry => (current_entry # None /\ starts # <<>>)
    /\ (pc = "parse" /\ li = Len(lines) /\ in_entry) =>
           Len(entries) \in {Len(starts) - 1, Len(starts)}
    /\ (pc = "parse" /\ li = 0) => ~in_entry
    /\ pc = "done" => fi = Len(files)

\* a second file has been parsed to its end after a first file that ended
\* inside an open entry
C4_Witness ==
    /\ pc = "done"
    /\ Len(files) = 2
    /\ Last(files[1]) = OpenLine
    /\ Len(files[2]) >= 1

\* the key the program gives the start line `line`, said without the scan:
\* the text after the first opening brace that is followed by a character
\* other than a comma, up to the next comma or else the end of the line;
\* 'unknown' when the line has no such brace
KeyOf(line, key) ==
    LET keyed == { b \in 1..(Len(line) - 1) : Ch(line, b) = "{" /\ Ch(line, b + 1) # "," }
    IN IF keyed = {} THEN key = "unknown"
       ELSE \E b \in keyed :
               /\ \A a \in keyed : b <= a
               /\ key # ""
               /\ ~Contains(key, ",")
               /\ b + Len(key) <= Len(line)
               /\ Slice(line, b + 1, b + Len(key)) = key
               /\ b + Len(key) = Len(line) \/ Ch(line, b + Len(key) + 1) = ","

\* C8 (as the code has it): the key of an entry is the text after the first
\* opening brace of its start line that is followed by something other than a
\* comma, up to the next comma or, with no comma after it, to the end of the
\* line; it is 'unknown' only when the start line has no such brace.
C8_KeyRunsToCommaOrLineEnd ==
    (pc = "parse" /\ current_entry # None) =>
        KeyOf(entry_content[1], current_entry[1].key)

\* an entry whose start line has no comma and whose key is not 'unknown'
C8_Witness ==
    /\ pc = "parse"
    /\ current_entry # None
    /\ ~Contains(entry_content[1], ",")
    /\ current_entry[1].key # "unknown"

\* C8 as claimed: the key is the text between the opening brace and the first
\* comma of the start line, and 'unknown' whenever that line has no comma.
C8_KeyUnknownWithoutComma ==
    (pc = "parse" /\ current_entry # None) =>
        LET line == entry_content[1]
            b == FindFrom(line, "{", 1)
            c == FindFrom(line, ",", 1)
        IN current_entry[1].key = IF c = 0 THEN "unknown" ELSE Slice(line, b + 1, c - 1)

\* the segmenter has just taken a start line (nothing was appended since)
AtStartLine == pc = "parse" /\ Len(entry_content) = 1

\* C9 (as the code has it): a start line closes its entry at once if and only
\* if it has at least as many closing as opening braces, whether or not it
\* ends with a closing brace; any other start line leaves the entry open.
C9_StartLineClosesWhenBalanced ==
    AtStartLine =>
        (~in_entry <=> (Contains(entry_content[1], "}") /\ Balance(entry_content[1]) <= 0))

\* a start line with text after its last brace has closed its entry
C9_Witness ==
    /\ AtStartLine
    /\ ~in_entry
    /\ ~EndsWith(entry_content[1], "}")
    /\ Len(entries) >= 1

\* C9 as claimed: a start line closes its entry at once if and only if its
\* braces are balanced or over-balanced and it ends with a closing brace.
C9_StartLineClosesAtBrace ==
    AtStartLine =>
        (~in_entry <=> (Balance(entry_content[1]) <= 0 /\ EndsWith(entry_content[1], "}")))

RECURSIVE Block(_, _, _)
\* the stripped lines a..b of the file, without those the loop skips
Block(file, a, b) ==
    IF a > b THEN <<>>
    ELSE (IF Skipped(Strip(file[a])) THEN <<>> ELSE <<Strip(file[a])>>) \o Block(file, a + 1, b)

\* C10: while an entry is open every line, a start-pattern line too, is
\* appended to its block and starts nothing; so at most one entry is emitted
\* per start-pattern line read while no entry was open, every emitted entry
\* has the type and key of the start line that opened it, and the entries
\* come in document order.
C10_OpenEntryAbsorbsStartLines ==
    pc = "parse" =>
        /\ Len(entries) = Len(emitted)
        /\ Len(entries) <= Len(starts)
        /\ Range(emitted) \subseteq Range(starts)
        /\ \A j \in 1..Len(emitted) :
               /\ j > 1 => emitted[j - 1] < emitted[j]
               /\ StartPattern(Strip(lines[emitted[j]])) # 0
               /\ entries[j].type = EntryType(Strip(lines[emitted[j]]))
               /\ entries[j].key = EntryKey(Strip(lines[emitted[j]]))
        /\ in_entry =>
               /\ starts # <<>>
               /\ entry_content = Block(lines, Last(starts), li)
               /\ current_entry[1].type = EntryType(Strip(lines[Last(starts)]))
               /\ current_entry[1].key = EntryKey(Strip(lines[Last(starts)]))

\* an open entry has taken a line that matches the start pattern, and was
\* closed and emitted later
C10_Witness ==
    /\ pc = "parse"
    /\ ~in_entry
    /\ Len(entries) = 1
    /\ \E i \in 2..Len(entry_content) : StartPattern(entry_content[i]) # 0

(***************************************************************************)
(* Properties of the aggregation (checked under SpecStats).                *)
(***************************************************************************)
\* the per-table sum of two statistics
Merge(s, t) ==
    [total_entries |-> s.total_entries + t.total_entries,
     entry_types |-> s.entry_types (+) t.entry_types,
     authors |-> s.authors (+) t.authors,
     journals |-> s.journals (+) t.journals,
     conferences |-> s.conferences (+) t.conferences,
     years |-> s.years (+) t.years]

\* C5: total_entries is the sum of the counts of entry_types, for every
\* sequence of entries (the other four tables are not tied to it).
C5_TotalIsSumOfTypes ==
    \A k \in DOMAIN results :
        /\ results[k].total_entries = Len(InputOf(k))
        /\ results[k].total_entries = BagCardinality(results[k].entry_types)

\* statistics of a non-empty sequence in which no other table sums to
\* total_entries
C5_Witness ==
    /\ "concat" \in DOMAIN results
    /\ results["concat"].total_entries = 2
    /\ BagCardinality(results["concat"].entry_types) = 2
    /\ BagCardinality(results["concat"].authors) # 2
    /\ BagCardinality(results["concat"].journals) # 2
    /\ BagCardinality(results["concat"].conferences) # 2
    /\ BagCardinality(results["concat"].years) # 2

AllCalculated == DOMAIN results = {"first", "second", "concat", "swapped"}

\* C6: the statistics of E1 ++ E2 are the per-table sum of those of E1 and of
\* E2, and are those of E2 ++ E1.
C6_AggregationIsAdditive ==
    AllCalculated =>
        /\ results["concat"] = Merge(results["first"], results["second"])
        /\ results["swapped"] = results["concat"]

\* two different non-empty sequences that share an author and a year
C6_Witness ==
    /\ AllCalculated
    /\ first # <<>>
    /\ second # <<>>
    /\ first # second
    /\ \E a \in DOMAIN results["first"].authors : a \in DOMAIN results["second"].authors
    /\ \E y \in DOMAIN results["first"].years : y \in DOMAIN results["second"].years

ProceedingsTitle == "Proceedings of the International Conference on Foo"

JournalTitle == "The Journal of Bar"

\* how many entries of `es` have the value v in the field f
Having(es, f, v) == Cardinality({ i \in 1..Len(es) : Get(es[i].fields, f) = v })

\* C7 (as the code has it): an entry whose booktitle is 'Proceedings of the
\* International Conference on Foo' counts for the conference 'the
\* International Conference on Foo' (the article stays: it is stripped from
\* journal names only), and an entry whose journal is 'The Journal of Bar'
\* counts for the journal 'Journal of Bar'.
C7_VenuePrefixesStripped ==
    \A k \in DOMAIN results :
        /\ CopiesIn("the International Conference on Foo", results[k].conferences)
               >= Having(InputOf(k), "booktitle", ProceedingsTitle)
        /\ CopiesIn("Journal of Bar", results[k].journals)
               >= Having(InputOf(k), "journal", JournalTitle)

\* statistics of a sequence that holds both entries
C7_Witness ==
    /\ "first" \in DOMAIN results
    /\ Having(first, "booktitle", ProceedingsTitle) = 1
    /\ Having(first, "journal", JournalTitle) = 1

\* C7 as claimed: the booktitle 'Proceedings of the International Conference
\* on Foo' gives the conference 'International Conference on Foo', and the
\* journal 'The Journal of Bar' gives the journal 'Journal of Bar'.
C7_ConferenceLosesArticle ==
    \A k \in DOMAIN results :
        /\ CopiesIn("International Conference on Foo", results[k].conferences)
               >= Having(InputOf(k), "booktitle", ProceedingsTitle)
        /\ CopiesIn("Journal of Bar", results[k].journals)
               >= Having(InputOf(k), "journal", JournalTitle)

====
